---- MODULE Spec2Model ----
(***************************************************************************)
(* Model of blocks/extensions/saveload.py: the Checkpoint, LoadFromDump    *)
(* and Dump extensions acting on the current row of the main loop's log    *)
(* and on the filesystem.                                                  *)
(*                                                                         *)
(* Python strings (paths, attribute names) are sequences of one-character  *)
(* strings, so that os.path.splitext and string concatenation are computed *)
(* and not assumed.  Python values stored in a log row are tagged records: *)
(* None, a tuple of paths, or a str.                                       *)
(***************************************************************************)
EXTENDS Integers, Sequences, FiniteSets, TLC

\* Bound on the number of extension calls / row changes in one behaviour.
MaxSteps == 3

LOADED_FROM == "loaded_from"
SAVED_TO == "saved_to"

(***************************************************************************)
(* Input domains                                                           *)
(***************************************************************************)
\* "m.p"
P_m_p == <<"m", ".", "p">>
\* "m_log.p" : the name derived from "m.p" for the attribute "log"
P_m_log_p == <<"m", "_", "l", "o", "g", ".", "p">>
\* "d.x/.rc" : a dot in the directory part and a leading dot in the name
P_dx_rc == <<"d", ".", "x", "/", ".", "r", "c">>
\* "a.b.c"
P_a_b_c == <<"a", ".", "b", ".", "c">>

\* Values of the `path` constructor argument of Checkpoint.
ConstructionPaths == {P_m_p, P_m_log_p}
\* Values a user passes as the argument of a condition.
UserPaths == {P_m_p, P_dx_rc, P_a_b_c}

A_log == <<"l", "o", "g">>
A_model == <<"m", "o", "d", "e", "l">>
A_zz == <<"z", "z">>
\* The attributes the main loop object has; getattr of any other name raises.
MainLoopAttributes == {A_log, A_model}
\* Values of the `save_separately` constructor argument (None is the empty list).
SeparatelyLists == {<<>>, <<A_log>>, <<A_log, A_model>>, <<A_zz, A_log>>}

F_dump == <<"d", "u", "m", "p">>
F_old == <<"o", "l", "d">>
\* Values of the `state_path` constructor argument of Dump / LoadFromDump.
DumpFolders == {F_dump}
LoadFolders == {F_dump, F_old}

\* The argument tuples a condition can hand to Checkpoint.do (from_user).
UserArgs == {<<>>} \cup {<<u>> : u \in UserPaths} \cup {<<P_m_p, P_a_b_c>>}

(***************************************************************************)
(* Python values and exceptions                                            *)
(***************************************************************************)
NoneV == [t |-> "None"]
TupleV(s) == [t |-> "tuple", items |-> s]
StrV(s) == [t |-> "str", chars |-> s]

NoExc == [type |-> "none", site |-> "none", msg |-> "none"]
Exc(type, site) == [type |-> type, site |-> site, msg |-> "original"]

\* dict.get(key, default)
Get(d, k, default) == IF k \in DOMAIN d THEN d[k] ELSE default
\* d[key] = value
SetItem(d, k, v) == [x \in DOMAIN d \cup {k} |-> IF x = k THEN v ELSE d[x]]
EmptyDict == [x \in {} |-> NoneV]

Range(s) == {s[i] : i \in 1..Len(s)}

\* Events a handler performs, in order.
EvSet(k, v) == [ev |-> "setitem", key |-> k, val |-> v]
EvPickle(what, p) == [ev |-> "pickle", what |-> what, path |-> p]
EvCall(f) == [ev |-> "call", fn |-> f]
EvRaise(e) == [ev |-> "raise", exc |-> e]

VARIABLES
    path,              \* Checkpoint.path
    save_separately,   \* Checkpoint.save_separately
    dump_folder,       \* Dump.manager.folder
    load_folder,       \* LoadFromDump.manager.folder
    row,               \* main_loop.log.current_row
    rowId,             \* identity of the current row object
    disk,              \* filesystem: path -> what was stored there
    raised,            \* the exception the last call let out, or NoExc
    trace,             \* the events of the last call, in order
    last,              \* the last call and the row it started from
    steps

vars == <<path, save_separately, dump_folder, load_folder, row, rowId, disk,
          raised, trace, last, steps>>

config == <<path, save_separately, dump_folder, load_folder>>

(***************************************************************************)
(* os.path.splitext (posix), as used at line 76                            *)
(***************************************************************************)
\* str.rfind, 1-based; 0 when absent
rfind(p, c) ==
    IF \E i \in 1..Len(p) : p[i] = c
    THEN CHOOSE i \in 1..Len(p) : p[i] = c /\ \A j \in (i+1)..Len(p) : p[j] # c
    ELSE 0

RECURSIVE splitext_scan(_, _, _)
splitext_scan(p, filenameIndex, dotIndex) ==
    IF filenameIndex < dotIndex
    THEN IF p[filenameIndex] # "."
         THEN <<SubSeq(p, 1, dotIndex - 1), SubSeq(p, dotIndex, Len(p))>>
         ELSE splitext_scan(p, filenameIndex + 1, dotIndex)
    ELSE <<p, <<>>>>

splitext(p) ==
    LET sepIndex == rfind(p, "/")
        dotIndex == rfind(p, ".")
    IN  IF dotIndex > sepIndex
        THEN splitext_scan(p, sepIndex + 1, dotIndex)
        ELSE <<p, <<>>>>

(***************************************************************************)
(* Checkpoint                                                              *)
(***************************************************************************)
\* Variant: the attribute name is appended after the extension.
save_separately_filenames_appended(p) ==
    [attribute \in Range(save_separately) |-> p \o <<"_">> \o attribute]

save_separately_filenames(p) ==
    LET root == splitext(p)[1]
        ext == splitext(p)[2]
    IN  [attribute \in Range(save_separately) |->
            root \o <<"_">> \o attribute \o ext]

\* A call in progress: s.n counts the serializer calls made so far.
Start == [row |-> row, disk |-> disk, trace |-> <<>>, exc |-> NoExc, n |-> 0]

Raise(s, e) == [s EXCEPT !.exc = e, !.trace = Append(@, EvRaise(e))]

\* secure_pickle_dump(object, path): stores the whole object at path, or
\* raises and leaves the path as it was.  `fail` is the number of the
\* serializer call that raises (0: none does).
secure_pickle_dump(s, what, p, fail) ==
    IF s.n + 1 = fail
    THEN Raise([s EXCEPT !.n = @ + 1], Exc("PicklingError", "secure_pickle_dump"))
    ELSE [s EXCEPT !.n = @ + 1,
                   !.disk = SetItem(@, p, what),
                   !.trace = Append(@, EvPickle(what, p))]

MainLoopBlob(s) == [kind |-> "main_loop", row |-> s.row]
AttributeBlob(a) == [kind |-> "attribute", name |-> a]

\* Variant: the argument from the user is ignored.
checkpoint_path_ignores_user(from_user) == path

\* line 90-92
checkpoint_path(from_user) == IF from_user # <<>> THEN from_user[1] ELSE path

\* Variant: a record that is not a tuple is started afresh.
checkpoint_record_tolerant(s, p) ==
    LET already_saved_to == Get(s.row, SAVED_TO, TupleV(<<>>))
        items == IF already_saved_to.t = "tuple" THEN already_saved_to.items ELSE <<>>
        v == TupleV(items \o <<p>>)
    IN  [s EXCEPT !.row = SetItem(@, SAVED_TO, v),
                  !.trace = Append(@, EvSet(SAVED_TO, v))]

\* line 93-95
checkpoint_record(s, p) ==
    LET already_saved_to == Get(s.row, SAVED_TO, TupleV(<<>>))
    IN  IF already_saved_to.t = "tuple"
        THEN LET v == TupleV(already_saved_to.items \o <<p>>)
             IN  [s EXCEPT !.row = SetItem(@, SAVED_TO, v),
                           !.trace = Append(@, EvSet(SAVED_TO, v))]
        ELSE Raise(s, Exc("TypeError", "concatenate"))

\* line 98-100
RECURSIVE checkpoint_separately(_, _, _, _)
checkpoint_separately(s, attributes, filenames, fail) ==
    IF attributes = <<>> \/ s.exc # NoExc
    THEN s
    ELSE LET attribute == Head(attributes)
         IN  IF attribute \notin MainLoopAttributes
             THEN Raise(s, Exc("AttributeError", "getattr"))
             ELSE checkpoint_separately(
                      secure_pickle_dump(s, AttributeBlob(attribute),
                                         filenames[attribute], fail),
                      Tail(attributes), filenames, fail)

\* Variant: the handler re-raises without touching the record.
checkpoint_except_keeps_record(s) == s

\* line 101-103
checkpoint_except(s) ==
    IF s.exc # NoExc
    THEN [s EXCEPT !.row = SetItem(@, SAVED_TO, NoneV),
                   !.trace = Append(@, EvSet(SAVED_TO, NoneV))]
    ELSE s

\* Variant: the main loop is pickled before the record is made.
checkpoint_body_pickles_first(from_user, fail) ==
    LET s1 == IF Len(from_user) > 1
              THEN Raise(Start, Exc("ValueError", "unpack"))
              ELSE Start
        p  == checkpoint_path(from_user)
        s2 == IF s1.exc # NoExc THEN s1
              ELSE secure_pickle_dump(s1, MainLoopBlob(s1), p, fail)
        s3 == IF s2.exc # NoExc THEN s2 ELSE checkpoint_record(s2, p)
        s4 == IF s3.exc # NoExc THEN s3
              ELSE checkpoint_separately(s3, save_separately,
                                         save_separately_filenames(p), fail)
    IN  checkpoint_except(s4)

\* line 89-103
checkpoint_body(from_user, fail) ==
    LET s1 == IF Len(from_user) > 1
              THEN Raise(Start, Exc("ValueError", "unpack"))
              ELSE Start
        p  == checkpoint_path(from_user)
        s2 == IF s1.exc # NoExc THEN s1 ELSE checkpoint_record(s1, p)
        s3 == IF s2.exc # NoExc THEN s2
              ELSE secure_pickle_dump(s2, MainLoopBlob(s2), p, fail)
        s4 == IF s3.exc # NoExc THEN s3
              ELSE checkpoint_separately(s3, save_separately,
                                         save_separately_filenames(p), fail)
    IN  checkpoint_except(s4)

Checkpoint_do(from_user, fail) ==
    /\ steps < MaxSteps
    /\ LET s == checkpoint_body(from_user, fail)
       IN  /\ row' = s.row
           /\ disk' = s.disk
           /\ trace' = s.trace
           /\ raised' = s.exc
    /\ last' = [op |-> "Checkpoint.do", from_user |-> from_user, before |-> row,
                diskBefore |-> disk, rowIdBefore |-> rowId]
    /\ steps' = steps + 1
    /\ UNCHANGED <<config, rowId>>

(***************************************************************************)
(* Dump                                                                    *)
(***************************************************************************)
\* MainLoopDumpManager.dump(main_loop): writes the dump into the folder, or
\* raises, having written nothing or only a part of it.
manager_dump(s, folder, outcome) ==
    IF outcome = "ok"
    THEN [s EXCEPT !.disk = SetItem(@, folder, [kind |-> "dump", row |-> s.row]),
                   !.trace = Append(@, EvCall("dump"))]
    ELSE LET s1 == [s EXCEPT !.trace = Append(@, EvCall("dump"))]
             s2 == IF outcome = "partial"
                   THEN [s1 EXCEPT !.disk = SetItem(@, folder,
                                        [kind |-> "partial_dump", row |-> EmptyDict])]
                   ELSE s1
         IN  Raise(s2, Exc("IOError", "dump"))

\* line 165-167
dump_except(s) ==
    IF s.exc # NoExc
    THEN [s EXCEPT !.row = SetItem(@, SAVED_TO, NoneV),
                   !.trace = Append(@, EvSet(SAVED_TO, NoneV))]
    ELSE s

\* Variant: an existing record is kept.
dump_body_setdefault(outcome) ==
    LET v  == Get(row, SAVED_TO, StrV(dump_folder))
        s1 == [Start EXCEPT !.row = SetItem(@, SAVED_TO, v),
                            !.trace = Append(@, EvSet(SAVED_TO, v))]
    IN  dump_except(manager_dump(s1, dump_folder, outcome))

\* line 161-167
dump_body(outcome) ==
    LET v  == StrV(dump_folder)
        s1 == [Start EXCEPT !.row = SetItem(@, SAVED_TO, v),
                            !.trace = Append(@, EvSet(SAVED_TO, v))]
    IN  dump_except(manager_dump(s1, dump_folder, outcome))

Dump_do(outcome) ==
    /\ steps < MaxSteps
    /\ LET s == dump_body(outcome)
       IN  /\ row' = s.row
           /\ disk' = s.disk
           /\ trace' = s.trace
           /\ raised' = s.exc
    /\ last' = [op |-> "Dump.do", from_user |-> <<>>, before |-> row,
                diskBefore |-> disk, rowIdBefore |-> rowId]
    /\ steps' = steps + 1
    /\ UNCHANGED <<config, rowId>>

(***************************************************************************)
(* LoadFromDump                                                            *)
(***************************************************************************)
\* MainLoopDumpManager.load_to(main_loop): replaces the main loop's state,
\* its log included, by the dumped one, or raises and leaves it alone.
manager_load_to(s, folder, ok) ==
    LET s1 == [s EXCEPT !.trace = Append(@, EvCall("load_to"))]
    IN  IF ok /\ s.disk[folder].kind = "dump"
        THEN [s1 EXCEPT !.row = s.disk[folder].row]
        ELSE Raise(s1, Exc("IOError", "load_to"))

\* reraise_as("Failed to load the state"): a new exception of the type of the
\* one being handled, carrying the new message.
reraise_as(s, message) == [s EXCEPT !.exc = [@ EXCEPT !.msg = message]]

\* Variant: a failed load is marked in the row.
load_body_marks_failure(ok) ==
    LET s1 == manager_load_to(Start, load_folder, ok)
    IN  IF s1.exc = NoExc
        THEN LET v == StrV(load_folder)
             IN  [s1 EXCEPT !.row = SetItem(@, LOADED_FROM, v),
                            !.trace = Append(@, EvSet(LOADED_FROM, v))]
        ELSE reraise_as([s1 EXCEPT !.row = SetItem(@, LOADED_FROM, NoneV),
                                   !.trace = Append(@, EvSet(LOADED_FROM, NoneV))],
                        "Failed to load the state")

\* Variant: the record is made before the state is loaded.
load_body_records_first(ok) ==
    LET v  == StrV(load_folder)
        s0 == [Start EXCEPT !.row = SetItem(@, LOADED_FROM, v),
                            !.trace = Append(@, EvSet(LOADED_FROM, v))]
        s1 == manager_load_to(s0, load_folder, ok)
    IN  IF s1.exc = NoExc THEN s1
        ELSE reraise_as(s1, "Failed to load the state")

\* line 131-135
load_body(ok) ==
    LET s1 == manager_load_to(Start, load_folder, ok)
    IN  IF s1.exc = NoExc
        THEN LET v == StrV(load_folder)
             IN  [s1 EXCEPT !.row = SetItem(@, LOADED_FROM, v),
                            !.trace = Append(@, EvSet(LOADED_FROM, v))]
        ELSE reraise_as(s1, "Failed to load the state")

before_training(ok) ==
    /\ steps < MaxSteps
    /\ IF load_folder \notin DOMAIN disk
       THEN /\ trace' = <<>>
            /\ raised' = NoExc
            /\ UNCHANGED <<row, rowId, disk>>
       ELSE LET s == load_body(ok)
            IN  /\ row' = s.row
                /\ disk' = s.disk
                /\ trace' = s.trace
                /\ raised' = s.exc
                /\ rowId' = IF s.exc = NoExc THEN rowId + 1 ELSE rowId
    /\ last' = [op |-> "LoadFromDump.before_training", from_user |-> <<>>,
                before |-> row, diskBefore |-> disk, rowIdBefore |-> rowId]
    /\ steps' = steps + 1
    /\ UNCHANGED config

(***************************************************************************)
(* The main loop moves on to the next row of its log.                      *)
(***************************************************************************)
NewRow ==
    /\ steps < MaxSteps
    /\ row' = EmptyDict
    /\ rowId' = rowId + 1
    /\ trace' = <<>>
    /\ raised' = NoExc
    /\ last' = [op |-> "NewRow", from_user |-> <<>>, before |-> row,
                diskBefore |-> disk, rowIdBefore |-> rowId]
    /\ steps' = steps + 1
    /\ UNCHANGED <<config, disk>>

Init ==
    /\ path \in ConstructionPaths
    /\ save_separately \in SeparatelyLists
    /\ dump_folder \in DumpFolders
    /\ load_folder \in LoadFolders
    /\ row = EmptyDict
    /\ rowId = 0
    /\ disk = EmptyDict
    /\ raised = NoExc
    /\ trace = <<>>
    /\ last = [op |-> "init", from_user |-> <<>>, before |-> EmptyDict,
               diskBefore |-> EmptyDict, rowIdBefore |-> 0]
    /\ steps = 0

CheckpointStep ==
    \E from_user \in UserArgs, fail \in 0..(1 + Len(save_separately)) :
        Checkpoint_do(from_user, fail)

DumpStep == \E outcome \in {"ok", "clean", "partial"} : Dump_do(outcome)

LoadStep == \E ok \in BOOLEAN : before_training(ok)

Next == CheckpointStep \/ DumpStep \/ LoadStep \/ NewRow

Spec == Init /\ [][Next]_vars

(***************************************************************************)
(* Vocabulary of the properties                                            *)
(***************************************************************************)
Idx == 1..Len(trace)
IsPickle(i) == trace[i].ev = "pickle"
IsRaise(i) == trace[i].ev = "raise"
IsSet(i) == trace[i].ev = "setitem"
IsCall(i, f) == trace[i].ev = "call" /\ trace[i].fn = f
NumPickles == Cardinality({i \in Idx : IsPickle(i)})

InCheckpoint == last.op = "Checkpoint.do"
InDump == last.op = "Dump.do"
InLoad == last.op = "LoadFromDump.before_training"

HasKey(d, k) == k \in DOMAIN d
IsNone(d, k) == HasKey(d, k) /\ d[k].t = "None"
IsTuple(d, k, items) == HasKey(d, k) /\ d[k].t = "tuple" /\ d[k].items = items
IsStr(d, k, chars) == HasKey(d, k) /\ d[k].t = "str" /\ d[k].chars = chars

\* The tuple the row held when the call started (empty if the key was absent).
PreviousItems ==
    IF HasKey(last.before, SAVED_TO) /\ last.before[SAVED_TO].t = "tuple"
    THEN last.before[SAVED_TO].items
    ELSE <<>>

\* The path the call is to use: the user's argument, else the constructor's.
UsedPath == IF Len(last.from_user) = 1 THEN last.from_user[1] ELSE path

(***************************************************************************)
(* C1                                                                      *)
(***************************************************************************)
\* C1: whenever a step inside Checkpoint.do or Dump.do raises, the row's
\* "saved_to" entry is None when the call returns control, and the exception
\* that leaves do is the very exception that step raised.
C1_FailureRecordsNoneAndPropagates ==
    ((InCheckpoint \/ InDump) /\ \E i \in Idx : IsRaise(i)) =>
        /\ IsNone(row, SAVED_TO)
        /\ \A i \in Idx : IsRaise(i) => raised = trace[i].exc

\* A separately saved attribute fails to pickle on a row that already held paths.
C1_Witness ==
    /\ InCheckpoint
    /\ raised.site = "secure_pickle_dump"
    /\ NumPickles >= 1
    /\ PreviousItems # <<>>
    /\ IsNone(row, SAVED_TO)

(***************************************************************************)
(* C2                                                                      *)
(***************************************************************************)
\* C2: after every Checkpoint.do call in which no serialization step raises,
\* "saved_to" is the row's previous tuple (empty if absent) with the path of
\* this call appended.
C2_RecordsPathWhenSerializerSucceeds ==
    (/\ InCheckpoint
     /\ Len(last.from_user) <= 1
     /\ raised.site \notin {"secure_pickle_dump", "getattr"}) =>
        IsTuple(row, SAVED_TO, PreviousItems \o <<UsedPath>>)

(***************************************************************************)
(* C3                                                                      *)
(***************************************************************************)
\* Every write of the call is addressed through p: the main loop goes to p,
\* an attribute to the name derived from p, and p is what the record gains.
WritesUse(p) ==
    /\ \A i \in Idx : IsPickle(i) =>
          IF trace[i].what.kind = "main_loop"
          THEN trace[i].path = p
          ELSE trace[i].path = save_separately_filenames(p)[trace[i].what.name]
    /\ \A i \in Idx : (IsSet(i) /\ trace[i].val.t = "tuple") =>
          trace[i].val.items = PreviousItems \o <<p>>

\* C3 (as stated): with a user argument the user path is used for the main
\* file, the derived names and the record, and nothing is written to the
\* construction-time path; without one the construction-time path is used.
C3_Original ==
    (InCheckpoint /\ Len(last.from_user) <= 1) =>
        /\ WritesUse(UsedPath)
        /\ (Len(last.from_user) = 1 /\ last.from_user[1] # path) =>
              \A i \in Idx : IsPickle(i) => trace[i].path # path

\* C3 (amended): the path of the call alone decides what is written; the
\* construction-time path is written only if it is the user path or one of
\* the names derived from the user path.
C3_UserPathReplacesConstructionPath ==
    (InCheckpoint /\ Len(last.from_user) <= 1) =>
        /\ WritesUse(UsedPath)
        /\ \A i \in Idx : IsPickle(i) =>
              trace[i].path \in {UsedPath} \cup
                  {save_separately_filenames(UsedPath)[a] : a \in Range(save_separately)}

\* A complete save to a user path other than the construction-time path.
C3_Witness ==
    /\ InCheckpoint
    /\ Len(last.from_user) = 1
    /\ last.from_user[1] # path
    /\ raised = NoExc
    /\ NumPickles = 3

(***************************************************************************)
(* C4                                                                      *)
(***************************************************************************)
\* p[i+1..] is an extension: it starts with a dot, holds no other dot and no
\* separator, and the file name before it has a character that is not a dot.
HasExt(p, i) ==
    /\ i < Len(p)
    /\ p[i + 1] = "."
    /\ \A j \in (i + 2)..Len(p) : p[j] \notin {".", "/"}
    /\ \E j \in 1..i : p[j] # "." /\ \A k \in j..i : p[k] # "/"

\* i is where the extension of p starts (the end of p if it has none).
ExtAt(p, i) == HasExt(p, i) \/ (i = Len(p) /\ ~ \E k \in 0..Len(p) : HasExt(p, k))

Inserted(p, i, a) == SubSeq(p, 1, i) \o <<"_">> \o a \o SubSeq(p, i + 1, Len(p))

\* C4: a successful Checkpoint.do pickles each listed attribute to the main
\* path with "_" and the attribute name inserted before its extension, one
\* file per attribute, and pickles the whole main loop to the main path.
C4_SeparateFilesBesideMainFile ==
    (InCheckpoint /\ raised = NoExc) =>
        /\ HasKey(disk, UsedPath) /\ disk[UsedPath].kind = "main_loop"
        /\ \A a \in Range(save_separately) :
              \E i \in 0..Len(UsedPath) :
                  /\ ExtAt(UsedPath, i)
                  /\ HasKey(disk, Inserted(UsedPath, i, a))
                  /\ disk[Inserted(UsedPath, i, a)].kind = "attribute"
                  /\ disk[Inserted(UsedPath, i, a)].name = a
                  /\ \E e \in Idx : /\ IsPickle(e)
                                    /\ trace[e].path = Inserted(UsedPath, i, a)
        /\ Cardinality({trace[e].path : e \in {x \in Idx : IsPickle(x)}})
              = 1 + Cardinality(Range(save_separately))

\* Two attributes saved beside a path whose directory has a dot and whose
\* file name starts with one.
C4_Witness ==
    /\ InCheckpoint
    /\ raised = NoExc
    /\ UsedPath = P_dx_rc
    /\ Len(save_separately) = 2

(***************************************************************************)
(* C5                                                                      *)
(***************************************************************************)
LoadFailed == InLoad /\ \E i \in Idx : IsRaise(i)

\* C5 (as stated): when the dump folder exists and load_to raises, the row
\* receives a failure marker and the exception reaches the caller, no retry.
C5_Original ==
    LoadFailed =>
        /\ \E i \in Idx : IsSet(i)
        /\ raised # NoExc
        /\ Cardinality({i \in Idx : IsCall(i, "load_to")}) = 1

\* C5 (amended): when the dump folder exists and load_to raises,
\* before_training writes nothing to the log row, neither a failure marker
\* nor a "loaded_from" record, and an exception reaches the caller after a
\* single call of load_to.
C5_LoadFailureWritesNoRecord ==
    LoadFailed =>
        /\ \A i \in Idx : ~ IsSet(i)
        /\ raised # NoExc
        /\ Cardinality({i \in Idx : IsCall(i, "load_to")}) = 1

\* The folder holds a complete dump and load_to raises all the same.
C5_Witness ==
    /\ LoadFailed
    /\ HasKey(last.diskBefore, load_folder)
    /\ last.diskBefore[load_folder].kind = "dump"
    /\ raised.msg = "Failed to load the state"

(***************************************************************************)
(* C6                                                                      *)
(***************************************************************************)
\* C6: after every Dump.do call whose dump does not raise, "saved_to" is the
\* manager's folder, whatever the row held before.
C6_DumpRecordsFolder ==
    (InDump /\ raised = NoExc) => IsStr(row, SAVED_TO, dump_folder)

\* A dump on a row that already held a tuple of checkpoint paths.
C6_Witness ==
    /\ InDump
    /\ raised = NoExc
    /\ PreviousItems # <<>>
    /\ IsStr(row, SAVED_TO, dump_folder)

(***************************************************************************)
(* C7                                                                      *)
(***************************************************************************)
\* C7: after before_training with an existing folder and a load that does
\* not raise, "loaded_from" is the manager's folder and was written after
\* load_to completed; a failed load writes no "loaded_from" record.
C7_LoadedFromWrittenAfterLoad ==
    InLoad =>
        /\ (HasKey(last.diskBefore, load_folder) /\ raised = NoExc) =>
              /\ IsStr(row, LOADED_FROM, load_folder)
              /\ \E c, w \in Idx : /\ IsCall(c, "load_to")
                                   /\ IsSet(w) /\ trace[w].key = LOADED_FROM
                                   /\ c < w
              /\ \A c, w \in Idx : (IsCall(c, "load_to") /\ IsSet(w)) => c < w
        /\ raised # NoExc =>
              /\ \A w \in Idx : ~ (IsSet(w) /\ trace[w].key = LOADED_FROM)
              /\ ~ HasKey(last.before, LOADED_FROM) => ~ HasKey(row, LOADED_FROM)

\* A load that replaced the row by a dumped one and then made the record.
C7_Witness ==
    /\ InLoad
    /\ raised = NoExc
    /\ rowId # last.rowIdBefore
    /\ ~ HasKey(last.before, LOADED_FROM)
    /\ IsStr(row, LOADED_FROM, load_folder)

(***************************************************************************)
(* C8                                                                      *)
(***************************************************************************)
\* C8: once the row's "saved_to" is None or a non-tuple value, a
\* Checkpoint.do on that row raises before any file is written and leaves
\* "saved_to" None, whatever the serializer would do; only a Dump.do or a
\* change of row makes a None "saved_to" non-None again.
C8_FailureMarkerAbsorbing ==
    /\ (/\ InCheckpoint
        /\ HasKey(last.before, SAVED_TO)
        /\ last.before[SAVED_TO].t # "tuple") =>
           /\ raised # NoExc
           /\ NumPickles = 0
           /\ disk = last.diskBefore
           /\ IsNone(row, SAVED_TO)
    /\ (IsNone(last.before, SAVED_TO) /\ ~ IsNone(row, SAVED_TO)) =>
           (InDump \/ rowId # last.rowIdBefore)

\* A Checkpoint.do after a successful Dump.do on the same row.
C8_Witness ==
    /\ InCheckpoint
    /\ IsStr(last.before, SAVED_TO, dump_folder)
    /\ Len(last.from_user) <= 1
    /\ IsNone(row, SAVED_TO)

(***************************************************************************)
(* C9                                                                      *)
(***************************************************************************)
\* C9: Checkpoint.do writes the record, then the main file, then the
\* attributes in list order, and stops at the first failure without undoing:
\* the files written before the failure are on disk, nothing later is
\* written, and "saved_to" is None.
C9_OrderedWritesStopAtFailure ==
    (InCheckpoint /\ \E i \in Idx : IsSet(i) /\ trace[i].val.t = "tuple") =>
        LET n == NumPickles
            names == save_separately_filenames(UsedPath)
        IN  /\ IsSet(1) /\ trace[1].val.t = "tuple"
            /\ n >= 1 =>
                  /\ IsPickle(2)
                  /\ trace[2].what.kind = "main_loop"
                  /\ trace[2].path = UsedPath
                  /\ IsTuple(trace[2].what.row, SAVED_TO, trace[1].val.items)
            /\ \A j \in 1..(n - 1) :
                  /\ IsPickle(2 + j)
                  /\ trace[2 + j].what.kind = "attribute"
                  /\ trace[2 + j].what.name = save_separately[j]
                  /\ trace[2 + j].path = names[save_separately[j]]
            /\ \A i \in Idx : IsPickle(i) =>
                  HasKey(disk, trace[i].path) /\ disk[trace[i].path] = trace[i].what
            /\ \A q \in DOMAIN disk :
                  (\A i \in Idx : IsPickle(i) => trace[i].path # q) =>
                      HasKey(last.diskBefore, q) /\ disk[q] = last.diskBefore[q]
            /\ IF raised = NoExc
               THEN Len(trace) = n + 1 /\ n = 1 + Len(save_separately)
               ELSE /\ Len(trace) = n + 3
                    /\ IsRaise(n + 2)
                    /\ IsSet(n + 3) /\ trace[n + 3].val.t = "None"
                    /\ IsNone(row, SAVED_TO)

\* The second separately saved attribute fails on a row that held a path:
\* the main file and the first attribute file are on disk.
C9_Witness ==
    /\ InCheckpoint
    /\ raised.site = "secure_pickle_dump"
    /\ NumPickles = 2
    /\ Len(save_separately) = 2
    /\ PreviousItems # <<>>
    /\ HasKey(disk, save_separately_filenames(UsedPath)[save_separately[1]])
    /\ ~ HasKey(disk, save_separately_filenames(UsedPath)[save_separately[2]])
    /\ IsNone(row, SAVED_TO)

====
